---- MODULE Spec2Model ----
(***************************************************************************)
(* Delayed notification service: the durable notification store, the      *)
(* claim-and-publish scheduler tick (NotifyService.ProcessQueue), the      *)
(* worker handler (NotifyService.GetWorkerHandler), Cancel, Create and     *)
(* the cached status read (GetStatus).                                     *)
(*                                                                         *)
(* The store is PostgreSQL under READ COMMITTED: `rows` is the committed   *)
(* state; a scheduler tick holds row locks (FOR UPDATE SKIP LOCKED) and    *)
(* uncommitted writes from its claim until its commit or rollback; a       *)
(* writer of a locked row waits for the lock.  Bus publishes are not       *)
(* transactional: a published message is visible to workers at once.       *)
(* Time is counted in minutes.                                             *)
(***************************************************************************)
EXTENDS Integers, Sequences, FiniteSets, TLC

\* ------------------------------------------------------------- bounds
MaxTime == 4
MaxSends == 3
MaxSendsReplicas == 1
MaxTimeReplicas == 2
MaxFaults == 1
MaxTimeApi == 2
MaxSendsApi == 1
MaxTimeCache == 2
MaxSendsCache == 1
MaxTimeEnv == 2
MaxSendsEnv == 1
MaxTimeBatch == 2
MaxSendsBatch == 1
MaxDeliveries == 2
MaxTimeRepo == 2
MaxSendsRepo == 1
MaxQueueRepo == 1
MaxTimeApp == 2
MaxSendsApp == 1
MaxTimeBackoff == 2
MaxSendsBackoff == 6

Ids == {1, 2}
Schedulers == {"s1", "s2"}
Workers == {"w1", "w2"}

\* time.Minute, in the model's time unit
Minute == 1

\* _cacheTTL
CacheTTL == 5 * Minute

VARIABLES
    now,     \* the clock (time.Now / NOW())
    rows,    \* committed table `notifications`: id -> row
    queue,   \* broker: id -> number of messages ready for delivery
    sched,   \* per scheduler tick: position, remaining batch, locks, uncommitted writes
    work,    \* per worker: position in the handler, message, sendErr, row read
    canc,    \* the Cancel request in progress
    crt,     \* the Create request in progress
    gets,    \* the GetStatus request in progress
    cache,   \* status cache: id -> entry
    resp,    \* the last response of Create / Cancel / GetStatus (when observed)
    links,   \* committed tables user_telegram_links and user_email_links
    poison,  \* a message on the queue that does not decode, and its deliveries
    sends,   \* id -> number of Sender.Send invocations
    faults,  \* infrastructure faults so far (publish error, rollback, failed commit)
    cfg,     \* the service's configuration, fixed at construction
    app      \* app.Run: its position and the resources and tasks it holds

vars == <<now, rows, queue, sched, work, canc, crt, gets, cache, resp, links, poison, sends, faults, cfg, app>>

\* ------------------------------------------------------------- entity
StatusWaiting == "waiting"
StatusInProcess == "in_process"
StatusSent == "sent"
StatusFailed == "failed"
StatusCancelled == "cancelled"

\* last_error values: NULL is scanned as the empty string
NoError == ""
SendError == "send error"
PublishError == "publish error"
CancelReason == "cancelled by user"

\* entity errors and the service's errors
\* (errors.Is compares error values by identity, not by message: each value
\* is named by the package variable that holds it)
ErrDataNotFound == "entity.ErrDataNotFound"
ErrInvalidData == "entity.ErrInvalidData"
ErrConflictingData == "entity.ErrConflictingData"
ErrRecipientNotFound == "entity.ErrRecipientNotFound"
EntityErrNotificationNotFound == "entity.ErrNotificationNotFound"
EntityErrNotificationAlreadySent == "entity.ErrNotificationAlreadySent"
EntityErrNotificationCancelled == "entity.ErrNotificationCancelled"
ErrNotificationNotFound == "service.ErrNotificationNotFound"
ErrNotificationAlreadySent == "service.ErrNotificationAlreadySent"
ErrNotificationCancelled == "service.ErrNotificationCancelled"

\* channels
Telegram == "telegram"
Email == "email"

\* Channel.IsValid
IsValid(c) == c \in {Telegram, Email}

\* no row with this id (sent_at 0 is NULL, time 0 is the zero time, user 0 is uuid.Nil)
NoRow == [status |-> "absent", scheduled_at |-> 0, sent_at |-> 0,
          retry_count |-> 0, last_error |-> NoError, created_at |-> 0,
          user_id |-> 0, channel |-> "", payload |-> "", recipient_identifier |-> ""]

Exists(r) == r.status # "absent"

Pow2(n) == IF n <= 0 THEN 1 ELSE 2 ^ n

\* ------------------------------------------------------------- repository
\* INSERT of a new row: the caller's columns, created_at stamped when zero,
\* the other columns at their defaults.
RepoCreate(notify, t) ==
    [status |-> notify.status, scheduled_at |-> notify.scheduled_at, sent_at |-> 0,
     retry_count |-> 0, last_error |-> NoError,
     created_at |-> IF notify.created_at = 0 THEN t ELSE notify.created_at,
     user_id |-> notify.user_id, channel |-> notify.channel, payload |-> notify.payload,
     recipient_identifier |-> notify.recipient_identifier]

\* UPDATE notifications SET status, last_error [, sent_at = NOW()]
\* [, retry_count = retry_count + 1] WHERE id = ?  (no condition on the
\* current status); no row affected when the id is absent.
UpdateStatus(r, status, lastErr, t) ==
    IF ~Exists(r) THEN r
    ELSE [r EXCEPT !.status = status,
                   !.last_error = lastErr,
                   !.sent_at = IF status = StatusSent THEN t ELSE @,
                   !.retry_count = IF status = StatusFailed THEN @ + 1 ELSE @]

RescheduleNotification_ResetRetry(r, newScheduledAt) ==
    IF ~Exists(r) THEN r
    ELSE [r EXCEPT !.scheduled_at = newScheduledAt,
                   !.status = StatusWaiting,
                   !.last_error = NoError,
                   !.retry_count = 0]

RescheduleNotification_ClearsSentAt(r, newScheduledAt) ==
    IF ~Exists(r) THEN r
    ELSE [r EXCEPT !.scheduled_at = newScheduledAt,
                   !.status = StatusWaiting,
                   !.last_error = NoError,
                   !.sent_at = 0]

\* UPDATE notifications SET scheduled_at, status = waiting, last_error = NULL
RescheduleNotification(r, newScheduledAt) ==
    IF ~Exists(r) THEN r
    ELSE [r EXCEPT !.scheduled_at = newScheduledAt,
                   !.status = StatusWaiting,
                   !.last_error = NoError]

\* the error RescheduleNotification returns: DataNotFound when no row was updated
RescheduleNotificationErr(r) == IF Exists(r) THEN NoError ELSE ErrDataNotFound

\* rows locked by a scheduler tick other than s
LockedByOther(i, s) == \E o \in Schedulers \ {s} : i \in sched[o].claimed

Locked(i) == \E o \in Schedulers : i \in sched[o].claimed

Claimable_NoSkipLocked(i, s) ==
    /\ rows[i].status = StatusWaiting
    /\ rows[i].scheduled_at <= now

Claimable_AnyStatus(i, s) ==
    /\ Exists(rows[i])
    /\ rows[i].scheduled_at <= now
    /\ ~LockedByOther(i, s)

Claimable_AnyUnsent(i, s) ==
    /\ rows[i].status \in {StatusWaiting, StatusInProcess}
    /\ rows[i].scheduled_at <= now
    /\ ~LockedByOther(i, s)

\* WHERE status = waiting AND scheduled_at <= NOW() ... FOR UPDATE SKIP LOCKED
Claimable(i, s) ==
    /\ rows[i].status = StatusWaiting
    /\ rows[i].scheduled_at <= now
    /\ ~LockedByOther(i, s)

SortedSeqs_Unordered(S) ==
    {q \in [1..Cardinality(S) -> S] :
        \A a, b \in 1..Cardinality(S) : a # b => q[a] # q[b]}

\* ORDER BY scheduled_at ASC: the sequences over S in that order (ties in any order)
SortedSeqs(S) ==
    {q \in [1..Cardinality(S) -> S] :
        /\ \A a, b \in 1..Cardinality(S) : a # b => q[a] # q[b]
        /\ \A a, b \in 1..Cardinality(S) :
              a < b => rows[q[a]].scheduled_at <= rows[q[b]].scheduled_at}

Prefix_NoLimit(q, n) == q

Prefix(q, n) == IF Len(q) <= n THEN q ELSE SubSeq(q, 1, n)

\* the batches GetForProcess(limit) can return to tick s
GetForProcess(s, limit) ==
    {Prefix(q, limit) : q \in SortedSeqs({i \in Ids : Claimable(i, s)})}

Range(q) == {q[k] : k \in 1..Len(q)}

\* tables user_telegram_links (user_id -> telegram_chat_id) and
\* user_email_links (user_id -> email) as they are at the start
TelegramLinks == (1 :> 1001)
EmailLinks == (1 :> "u1@mail") @@ (2 :> "u2@mail")

\* SELECT telegram_chat_id FROM user_telegram_links WHERE user_id = ?
GetTelegramChatIDByUserID(userID) ==
    IF userID \in DOMAIN links.telegram
    THEN [err |-> NoError, chatID |-> links.telegram[userID]]
    ELSE [err |-> ErrDataNotFound, chatID |-> 0]

\* SELECT email FROM user_email_links WHERE user_id = ?
GetUserEmailByUserID(userID) ==
    IF userID \in DOMAIN links.email
    THEN [err |-> NoError, email |-> links.email[userID]]
    ELSE [err |-> ErrDataNotFound, email |-> ""]

\* ------------------------------------------------------------- cache
\* json.Marshal of a notification: sent_at and last_error are omitempty
Marshal(i, r) ==
    LET keys == {k \in DOMAIN r : /\ ~(k = "sent_at" /\ r.sent_at = 0)
                                  /\ ~(k = "last_error" /\ r.last_error = NoError)}
    IN [k \in keys \cup {"id"} |-> IF k = "id" THEN i ELSE r[k]]

\* json.Unmarshal into a zero Notification: absent keys keep the zero value
Unmarshal(d) == [k \in DOMAIN NoRow |-> IF k \in DOMAIN d THEN d[k] ELSE NoRow[k]]

\* no key in the cache
Miss == [present |-> FALSE, data |-> [id |-> 0], exp |-> 0]

\* cache.Get: the key is there and has not expired
CacheHit(i) == cache[i].present /\ now < cache[i].exp

\* cache.Del
invalidateCache(i) == [cache EXCEPT ![i] = Miss]

saveToCache_Nothing(i, r) == cache

\* cache.SetWithExpiration(key, json, _cacheTTL)
saveToCache(i, r) ==
    [cache EXCEPT ![i] = [present |-> TRUE, data |-> Marshal(i, r), exp |-> now + CacheTTL]]

\* ------------------------------------------------------------- service
\* baseRetryDelay * (1 << retryCount) after now
calculateNextAttempt(retryCount) == now + cfg.baseRetryDelay * Pow2(retryCount)

\* the Sender stub: what Send may return on the n-th invocation for an id
\* (TRUE is an error)
SendOutcomes(n) ==
    CASE cfg.sender = "alwaysFail" -> {TRUE}
      [] cfg.sender = "failTwice" -> IF n <= 2 THEN {TRUE} ELSE {FALSE}
      [] OTHER -> {TRUE, FALSE}

\* ProcessingStats as ProcessQueue starts it (Duration is not modelled)
NoStats == [Processed |-> 0, Failed |-> 0]

IdleSched == [pc |-> "idle", batch |-> <<>>, claimed |-> {}, wrote |-> <<>>, stats |-> NoStats]
IdleWork == [pc |-> "idle", id |-> 0, sendErr |-> FALSE, read |-> 0, invoked |-> FALSE]
NoPoison == [ready |-> 0, deliveries |-> 0]
IdleCanc == [pc |-> "idle", id |-> 0]
IdleGet == [pc |-> "idle", id |-> 0, row |-> NoRow]

\* a CreateNotificationRequest, the zero request, the zero Notification
NoReq == [user_id |-> 0, channel |-> "", payload |-> "", scheduled_at |-> 0]
NoNotify == [user_id |-> 0, channel |-> "", payload |-> "", recipient_identifier |-> "",
             scheduled_at |-> 0, status |-> StatusWaiting, created_at |-> 0]
IdleCreate == [pc |-> "idle", req |-> NoReq, n |-> NoNotify]

\* a response: the operation, the error returned ("" is nil), the id, and for
\* Create the request and whether a recipient lookup was made
\* NotifyHandler.handleServiceError: the HTTP status for a service error,
\* by errors.Is against the entity package's error values
handleServiceError(err) ==
    CASE err = EntityErrNotificationNotFound -> 404
      [] err = EntityErrNotificationAlreadySent -> 409
      [] err = EntityErrNotificationCancelled -> 409
      [] err = ErrInvalidData -> 400
      [] err = ErrRecipientNotFound -> 400
      [] err = ErrConflictingData -> 409
      [] OTHER -> 500

\* the HTTP status the handler answers with: 201 for a created notification,
\* 200 for a status or a cancellation, the mapped status for an error
StatusCode(op, err) ==
    IF err # NoError THEN handleServiceError(err)
    ELSE IF op = "create" THEN 201 ELSE 200

\* a response: the operation, the error returned ("" is nil), the id, for
\* Create the request and whether a recipient lookup was made, for GetStatus
\* the notification returned and whether the store was read, and the HTTP
\* status of the handler
NoResp == [op |-> "", err |-> NoError, id |-> 0, req |-> NoReq, lookup |-> FALSE,
           row |-> NoRow, read |-> FALSE, code |-> 0]
Response(op, err, id, req, lookup) ==
    [op |-> op, err |-> err, id |-> id, req |-> req, lookup |-> lookup,
     row |-> NoRow, read |-> FALSE, code |-> StatusCode(op, err)]

\* the response of GetStatus
GetResponse(err, id, row, read) ==
    [Response("get", err, id, NoReq, FALSE) EXCEPT !.row = row, !.read = read]

\* the response is recorded in the specifications that observe the callers
Observe(r) == IF cfg.observe THEN r ELSE resp

\* the working copy of row i inside tick s
TxRow(s, i) == IF i \in DOMAIN sched[s].wrote THEN sched[s].wrote[i] ELSE rows[i]

\* the requests callers send: every shape of request; well-formed ones for a
\* linked user; well-formed ones scheduled for the moment of the request.
\* offsets are the requested times relative to the clock, minAt 0 lets the
\* zero time in.
AllRequests == [users |-> {0, 1, 2}, channels |-> {"", "sms", Telegram, Email},
                payloads |-> {"", "p"}, offsets |-> {-1, 0}, minAt |-> 0]
ValidRequests == [users |-> {1}, channels |-> {Email}, payloads |-> {"p"},
                  offsets |-> {-1, 0}, minAt |-> 1]
DueRequests == [users |-> {1}, channels |-> {Email}, payloads |-> {"p"},
                offsets |-> {0}, minAt |-> 1]
BothChannels == [users |-> {1}, channels |-> {Telegram, Email}, payloads |-> {"p"},
                 offsets |-> {0}, minAt |-> 1]

\* NewNotifyService with its options, and the deployment: the notifications
\* requested, the scheduler replicas and the workers running
Config(ids, scheds, workers, maxRetries, sender, maxSends, maxTime, policies, reqs, observe) ==
    {[maxRetries |-> maxRetries, batchSize |-> Cardinality(Ids), baseRetryDelay |-> 1,
      sender |-> sender, requeue |-> rq, ids |-> ids, scheds |-> scheds,
      workers |-> workers, maxSends |-> maxSends, maxTime |-> maxTime,
      reqs |-> reqs, observe |-> observe,
      senders |-> {Telegram, Email}] : rq \in policies}

Configs == Config({1}, {"s1"}, {"w1"}, 2, "any", MaxSends, MaxTime, BOOLEAN, ValidRequests, FALSE)

\* app.Run before its first statement: nothing open, no task started
NotRunning == [pc |-> "initDatabase", db |-> FALSE, cache |-> FALSE, bus |-> FALSE,
               scheduler |-> FALSE, dispatcher |-> FALSE, http |-> FALSE]

InitWith(C) ==
    /\ now = 1
    /\ rows = [i \in Ids |-> NoRow]
    /\ queue = [i \in Ids |-> 0]
    /\ sched = [s \in Schedulers |-> IdleSched]
    /\ work = [w \in Workers |-> IdleWork]
    /\ canc = IdleCanc
    /\ crt = IdleCreate
    /\ gets = IdleGet
    /\ cache = [i \in Ids |-> Miss]
    /\ resp = NoResp
    /\ links = [telegram |-> TelegramLinks, email |-> EmailLinks]
    /\ poison = NoPoison
    /\ sends = [i \in Ids |-> 0]
    /\ faults = 0
    /\ cfg \in C
    /\ app = NotRunning

Init == InitWith(Configs)

\* the clock advances
Advance ==
    /\ now < cfg.maxTime
    /\ now' = now + 1
    /\ UNCHANGED <<rows, queue, sched, work, canc, crt, gets, cache, resp, links, poison, sends, faults, cfg, app>>

\* the requests a caller can send at this moment (scheduled_at 0 is the zero time)
Requests ==
    [user_id : cfg.reqs.users, channel : cfg.reqs.channels, payload : cfg.reqs.payloads,
     scheduled_at : {t \in {0} \cup {now + d : d \in cfg.reqs.offsets} : t >= cfg.reqs.minAt}]

validateCreateRequest_NoPayloadCheck(req) ==
    IF req.user_id = 0 THEN ErrInvalidData
    ELSE IF req.channel = "" THEN ErrInvalidData
    ELSE IF ~IsValid(req.channel) THEN ErrInvalidData
    ELSE IF req.scheduled_at = 0 THEN ErrInvalidData
    ELSE NoError

validateCreateRequest(req) ==
    IF req.user_id = 0 THEN ErrInvalidData
    ELSE IF req.channel = "" THEN ErrInvalidData
    ELSE IF ~IsValid(req.channel) THEN ErrInvalidData
    ELSE IF req.payload = "" THEN ErrInvalidData
    ELSE IF req.scheduled_at = 0 THEN ErrInvalidData
    ELSE NoError

adjustScheduledAt_NoClamp(scheduledAt, t) == scheduledAt

\* Create's adjustment: a scheduled_at before time.Now() becomes time.Now() + 1 minute
adjustScheduledAt(scheduledAt, t) ==
    IF scheduledAt < t THEN t + Minute ELSE scheduledAt

getRecipientIdentifier_NoLinkCheck(req) ==
    CASE req.channel = Telegram ->
           [err |-> NoError, recipient |-> ToString(GetTelegramChatIDByUserID(req.user_id).chatID)]
      [] req.channel = Email ->
           [err |-> NoError, recipient |-> GetUserEmailByUserID(req.user_id).email]
      [] OTHER -> [err |-> ErrInvalidData, recipient |-> ""]

\* Create's transaction "get_recipient_identifier": the switch on the channel
getRecipientIdentifier(req) ==
    CASE req.channel = Telegram ->
           LET r == GetTelegramChatIDByUserID(req.user_id)
           IN IF r.err = ErrDataNotFound
              THEN [err |-> ErrRecipientNotFound, recipient |-> ""]
              ELSE [err |-> NoError, recipient |-> ToString(r.chatID)]
      [] req.channel = Email ->
           LET r == GetUserEmailByUserID(req.user_id)
           IN IF r.err = ErrDataNotFound
              THEN [err |-> ErrRecipientNotFound, recipient |-> ""]
              ELSE [err |-> NoError, recipient |-> r.email]
      [] OTHER -> [err |-> ErrInvalidData, recipient |-> ""]

\* NotifyService.Create up to the notification it hands to the repository:
\* validation, the adjustment of scheduled_at against the clock, the recipient
\* lookup in its own transaction.  A rejected request returns its error here.
Create ==
    /\ crt.pc = "idle"
    /\ \E i \in cfg.ids : ~Exists(rows[i])
    /\ \E req \in Requests :
          LET verr == validateCreateRequest(req)
              rcpt == getRecipientIdentifier(req)
          IN IF verr # NoError
             THEN /\ crt' = crt
                  /\ resp' = Observe(Response("create", verr, 0, req, FALSE))
             ELSE IF rcpt.err # NoError
             THEN /\ crt' = crt
                  /\ resp' = Observe(Response("create", rcpt.err, 0, req, TRUE))
             ELSE /\ crt' = [pc |-> "insert", req |-> req,
                             n |-> [user_id |-> req.user_id, channel |-> req.channel,
                                    payload |-> req.payload,
                                    recipient_identifier |-> rcpt.recipient,
                                    scheduled_at |-> adjustScheduledAt(req.scheduled_at, now),
                                    status |-> StatusWaiting, created_at |-> 0]]
                  /\ resp' = resp
    /\ UNCHANGED <<now, rows, queue, sched, work, canc, gets, cache, links, poison, sends, faults, cfg, app>>

\* the id the next INSERT gets: ids are handed out in order
NextId == CHOOSE i \in Ids : ~Exists(rows[i]) /\ \A j \in Ids : j < i => Exists(rows[j])

\* NotifyService.Create, the transaction "create_notification": the repository
\* stamps created_at with the clock of the insert
CreateInsert ==
    /\ crt.pc = "insert"
    /\ rows' = [rows EXCEPT ![NextId] = RepoCreate(crt.n, now)]
    /\ resp' = Observe(Response("create", NoError, NextId, crt.req, TRUE))
    /\ crt' = IdleCreate
    /\ UNCHANGED <<now, queue, sched, work, canc, gets, cache, links, poison, sends, faults, cfg, app>>

\* ProcessQueue, the claim: GetForProcess inside the tick's transaction locks
\* the returned rows; an empty batch commits at once.
Claim(s) ==
    /\ sched[s].pc = "idle"
    /\ \E b \in GetForProcess(s, cfg.batchSize) :
          sched' = [sched EXCEPT ![s] =
                      IF b = <<>> THEN IdleSched
                      ELSE [pc |-> "publish", batch |-> b,
                            claimed |-> Range(b), wrote |-> <<>>,
                            stats |-> NoStats]]
    /\ UNCHANGED <<now, rows, queue, work, canc, crt, gets, cache, resp, links, poison, sends, faults, cfg, app>>

PublishNext_StopsAtFailure(s) ==
    /\ sched[s].pc = "publish"
    /\ sched[s].batch # <<>>
    /\ LET i == Head(sched[s].batch) IN
       \E err \in IF faults < MaxFaults THEN {FALSE, TRUE} ELSE {FALSE} :
          /\ queue' = IF err THEN queue ELSE [queue EXCEPT ![i] = @ + 1]
          /\ faults' = IF err THEN faults + 1 ELSE faults
          /\ sched' = [sched EXCEPT
                ![s].batch = IF err THEN <<>> ELSE Tail(@),
                ![s].stats = IF err THEN [@ EXCEPT !.Failed = @ + 1]
                                    ELSE [@ EXCEPT !.Processed = @ + 1],
                ![s].wrote = (i :> (IF err
                                    THEN UpdateStatus(TxRow(s, i), StatusFailed, PublishError, now)
                                    ELSE UpdateStatus(TxRow(s, i), StatusInProcess, NoError, now)))
                             @@ @]
    /\ UNCHANGED <<now, rows, work, canc, crt, gets, cache, resp, links, poison, sends, cfg, app>>

\* publishToQueue for the next notification of the batch: Publish, then
\* UpdateStatus(in_process) on success, UpdateStatus(failed, "publish error")
\* on a publish error; both inside the tick's transaction.
PublishNext(s) ==
    /\ sched[s].pc = "publish"
    /\ sched[s].batch # <<>>
    /\ LET i == Head(sched[s].batch) IN
       \E err \in IF faults < MaxFaults THEN {FALSE, TRUE} ELSE {FALSE} :
          /\ queue' = IF err THEN queue ELSE [queue EXCEPT ![i] = @ + 1]
          /\ faults' = IF err THEN faults + 1 ELSE faults
          /\ sched' = [sched EXCEPT
                ![s].batch = Tail(@),
                ![s].stats = IF err THEN [@ EXCEPT !.Failed = @ + 1]
                                    ELSE [@ EXCEPT !.Processed = @ + 1],
                ![s].wrote = (i :> (IF err
                                    THEN UpdateStatus(TxRow(s, i), StatusFailed, PublishError, now)
                                    ELSE UpdateStatus(TxRow(s, i), StatusInProcess, NoError, now)))
                             @@ @]
    /\ UNCHANGED <<now, rows, work, canc, crt, gets, cache, resp, links, poison, sends, cfg, app>>

\* the tick's transaction commits: its writes become visible, its locks go;
\* ProcessQueue returns without touching the cache
CommitTick(s) ==
    /\ sched[s].pc = "publish"
    /\ sched[s].batch = <<>>
    /\ rows' = [i \in Ids |-> TxRow(s, i)]
    /\ sched' = [sched EXCEPT ![s] = IdleSched]
    /\ UNCHANGED <<now, queue, work, canc, crt, gets, cache, resp, links, poison, sends, faults, cfg, app>>

RollbackTick_KeepsWrites(s) ==
    /\ sched[s].pc = "publish"
    /\ faults < MaxFaults
    /\ faults' = faults + 1
    /\ rows' = [i \in Ids |-> TxRow(s, i)]
    /\ sched' = [sched EXCEPT ![s] = IdleSched]
    /\ UNCHANGED <<now, queue, work, canc, crt, gets, cache, resp, links, poison, sends, cfg, app>>

\* the tick's transaction rolls back (failed commit, crash, cancelled
\* context): its writes are lost, its locks go, its publishes stay
RollbackTick(s) ==
    /\ sched[s].pc = "publish"
    /\ faults < MaxFaults
    /\ faults' = faults + 1
    /\ sched' = [sched EXCEPT ![s] = IdleSched]
    /\ UNCHANGED <<now, rows, queue, work, canc, crt, gets, cache, resp, links, poison, sends, cfg, app>>

\* MultiSender.Send: the switch on the channel; result is what the channel
\* sender returns when it is invoked (TRUE is an error).  A channel whose
\* sender is nil falls out of the switch to `return nil`.
MultiSenderSend(channel, result) ==
    CASE channel = Telegram ->
           IF Telegram \in cfg.senders
           THEN [err |-> result, invoked |-> TRUE] ELSE [err |-> FALSE, invoked |-> FALSE]
      [] channel = Email ->
           IF Email \in cfg.senders
           THEN [err |-> result, invoked |-> TRUE] ELSE [err |-> FALSE, invoked |-> FALSE]
      [] OTHER -> [err |-> TRUE, invoked |-> FALSE]

\* the worker handler takes a delivery, decodes it and invokes Sender.Send
\* (the message carries the channel of the row it was published for)
Receive(w, i) ==
    /\ work[w].pc = "idle"
    /\ queue[i] > 0
    /\ sends[i] < cfg.maxSends
    /\ queue' = [queue EXCEPT ![i] = @ - 1]
    /\ sends' = [sends EXCEPT ![i] = @ + 1]
    /\ \E result \in SendOutcomes(sends[i] + 1) :
          LET r == MultiSenderSend(rows[i].channel, result)
          IN work' = [work EXCEPT ![w] =
                        [pc |-> IF r.err THEN "read" ELSE "write",
                         id |-> i, sendErr |-> r.err, read |-> 0, invoked |-> r.invoked]]
    /\ UNCHANGED <<now, rows, sched, canc, crt, gets, cache, resp, links, poison, faults, cfg, app>>

\* updateAfterSend after a send error: GetByID reads the committed row
ReadRow(w) ==
    /\ work[w].pc = "read"
    /\ work' = [work EXCEPT ![w].pc = "write",
                            ![w].read = rows[work[w].id].retry_count]
    /\ UNCHANGED <<now, rows, queue, sched, canc, crt, gets, cache, resp, links, poison, sends, faults, cfg, app>>

AfterSend_CountsThisAttempt(r, sendErr, read) ==
    IF sendErr
    THEN LET f == UpdateStatus(r, StatusFailed, SendError, now)
         IN IF read + 1 < cfg.maxRetries
            THEN RescheduleNotification(f, calculateNextAttempt(read))
            ELSE f
    ELSE UpdateStatus(r, StatusSent, NoError, now)

\* the row updateAfterSend leaves: sent after a successful send; after a send
\* error failed, and rescheduled when the retry count read is below maxRetries
AfterSend(r, sendErr, read) ==
    IF sendErr
    THEN LET f == UpdateStatus(r, StatusFailed, SendError, now)
         IN IF read < cfg.maxRetries
            THEN RescheduleNotification(f, calculateNextAttempt(read))
            ELSE f
    ELSE UpdateStatus(r, StatusSent, NoError, now)

\* a handler that returns an error: the delivery is nacked, and the broker
\* requeues or drops it by its policy
Nack(i) == IF cfg.requeue THEN [queue EXCEPT ![i] = @ + 1] ELSE queue

\* updateAfterSend writes the row (waiting for a tick's lock) and commits;
\* the handler returns sendErr, so only a successful send is acked, and only
\* a successful send reaches the handler's invalidateCache
WriteRow(w) ==
    /\ work[w].pc = "write"
    /\ ~Locked(work[w].id)
    /\ LET i == work[w].id IN
       /\ rows' = [rows EXCEPT ![i] = AfterSend(@, work[w].sendErr, work[w].read)]
       /\ queue' = IF work[w].sendErr THEN Nack(i) ELSE queue
       /\ cache' = IF work[w].sendErr THEN cache ELSE invalidateCache(i)
    /\ work' = [work EXCEPT ![w] = IdleWork]
    /\ UNCHANGED <<now, sched, canc, crt, gets, resp, links, poison, sends, faults, cfg, app>>

\* updateAfterSend's commit fails: nothing is written, the handler returns
\* the error and the delivery is nacked
WriteFails(w) ==
    /\ work[w].pc = "write"
    /\ faults < MaxFaults
    /\ faults' = faults + 1
    /\ queue' = Nack(work[w].id)
    /\ work' = [work EXCEPT ![w] = IdleWork]
    /\ UNCHANGED <<now, rows, sched, canc, crt, gets, cache, resp, links, poison, sends, cfg, app>>

cancelCheck_NoCancelledCheck(r) ==
    IF ~Exists(r) THEN ErrNotificationNotFound
    ELSE IF r.status = StatusSent THEN ErrNotificationAlreadySent
    ELSE NoError

\* Cancel's checks on the row GetByID returned
cancelCheck(r) ==
    IF ~Exists(r) THEN ErrNotificationNotFound
    ELSE IF r.status = StatusSent THEN ErrNotificationAlreadySent
    ELSE IF r.status = StatusCancelled THEN ErrNotificationCancelled
    ELSE NoError

\* Cancel, GetByID: a missing, sent or cancelled row is refused with its error
\* and the transaction ends; otherwise the update follows
CancelRead(i) ==
    /\ canc.pc = "idle"
    /\ LET err == cancelCheck(rows[i])
       IN IF err # NoError
          THEN /\ canc' = IdleCanc
               /\ resp' = Observe(Response("cancel", err, i, NoReq, FALSE))
          ELSE /\ canc' = [pc |-> "update", id |-> i]
               /\ resp' = resp
    /\ UNCHANGED <<now, rows, queue, sched, work, crt, gets, cache, links, poison, sends, faults, cfg, app>>

\* Cancel, UpdateStatus(cancelled, "cancelled by user"), commit, invalidateCache
CancelUpdate ==
    /\ canc.pc = "update"
    /\ ~Locked(canc.id)
    /\ rows' = [rows EXCEPT ![canc.id] = UpdateStatus(@, StatusCancelled, CancelReason, now)]
    /\ cache' = invalidateCache(canc.id)
    /\ resp' = Observe(Response("cancel", NoError, canc.id, NoReq, FALSE))
    /\ canc' = IdleCanc
    /\ UNCHANGED <<now, queue, sched, work, crt, gets, links, poison, sends, faults, cfg, app>>

\* a cache call may fail while the fault budget lasts
CacheFaults == IF faults < MaxFaults THEN {FALSE, TRUE} ELSE {FALSE}

\* GetStatus up to the store read: a cache hit is returned as it is; on a miss
\* or a cache error GetByID reads the committed row, and a missing row is
\* NotificationNotFound
GetStatus(i) ==
    /\ gets.pc = "idle"
    /\ \E cacheErr \in CacheFaults :
          /\ faults' = IF cacheErr THEN faults + 1 ELSE faults
          /\ IF CacheHit(i) /\ ~cacheErr
             THEN /\ gets' = gets
                  /\ resp' = Observe(GetResponse(NoError, i, Unmarshal(cache[i].data), FALSE))
             ELSE IF ~Exists(rows[i])
             THEN /\ gets' = gets
                  /\ resp' = Observe(GetResponse(ErrNotificationNotFound, i, NoRow, TRUE))
             ELSE /\ gets' = [pc |-> "save", id |-> i, row |-> rows[i]]
                  /\ resp' = resp
    /\ UNCHANGED <<now, rows, queue, sched, work, canc, crt, cache, links, poison, sends, cfg, app>>

\* GetStatus, saveToCache of the row it read (its error is dropped), and the return
GetStatusSave ==
    /\ gets.pc = "save"
    /\ \E saveErr \in CacheFaults :
          /\ faults' = IF saveErr THEN faults + 1 ELSE faults
          /\ cache' = IF saveErr THEN cache ELSE saveToCache(gets.id, gets.row)
    /\ resp' = Observe(GetResponse(NoError, gets.id, gets.row, TRUE))
    /\ gets' = IdleGet
    /\ UNCHANGED <<now, rows, queue, sched, work, canc, crt, links, poison, sends, cfg, app>>

\* a user's link for a channel is deleted (a committed change of the link
\* tables by their owner)
Unlink(u, ch) ==
    /\ u \in DOMAIN links[ch]
    /\ links' = [links EXCEPT ![ch] = [x \in (DOMAIN @) \ {u} |-> @[x]]]
    /\ UNCHANGED <<now, rows, queue, sched, work, canc, crt, gets, cache, resp, poison, sends, faults, cfg, app>>

\* a message whose body does not decode into a Notification is on the queue
PoisonArrives ==
    /\ poison = NoPoison
    /\ poison' = [ready |-> 1, deliveries |-> 0]
    /\ UNCHANGED <<now, rows, queue, sched, work, canc, crt, gets, cache, resp, links, sends, faults, cfg, app>>

\* the worker handler takes that delivery: json.Unmarshal fails and the
\* handler returns the error, so the delivery is nacked
ReceivePoison(w) ==
    /\ work[w].pc = "idle"
    /\ poison.ready > 0
    /\ poison.deliveries < MaxDeliveries
    /\ poison' = [ready |-> IF cfg.requeue THEN poison.ready ELSE poison.ready - 1,
                  deliveries |-> poison.deliveries + 1]
    /\ UNCHANGED <<now, rows, queue, sched, work, canc, crt, gets, cache, resp, links, sends, faults, cfg, app>>

\* the pipeline and the writing callers; the status read writes nothing but
\* the cache, and is added by NextReads
Next ==
    \/ Advance
    \/ Create
    \/ CreateInsert
    \/ \E s \in cfg.scheds : Claim(s)
    \/ \E s \in cfg.scheds : PublishNext(s)
    \/ \E s \in cfg.scheds : CommitTick(s)
    \/ \E s \in cfg.scheds : RollbackTick(s)
    \/ \E w \in cfg.workers, i \in Ids : Receive(w, i)
    \/ \E w \in cfg.workers : ReadRow(w)
    \/ \E w \in cfg.workers : WriteRow(w)
    \/ \E w \in cfg.workers : WriteFails(w)
    \/ \E i \in Ids : CancelRead(i)
    \/ CancelUpdate

\* the repository called directly: RescheduleNotification(id, t) in a
\* transaction of its own, its error recorded as the response; the caller
\* holds back while MaxQueueRepo messages for the id are on the queue
Reschedule(i, t) ==
    /\ queue[i] < MaxQueueRepo
    /\ ~Locked(i)
    /\ rows' = [rows EXCEPT ![i] = RescheduleNotification(@, t)]
    /\ resp' = Observe([NoResp EXCEPT !.op = "reschedule", !.id = i,
                                     !.err = RescheduleNotificationErr(rows[i])])
    /\ UNCHANGED <<now, queue, sched, work, canc, crt, gets, cache, links, poison, sends, faults, cfg, app>>

NextRepo ==
    \/ Next
    \/ \E i \in Ids, t \in 1..cfg.maxTime : Reschedule(i, t)

\* Run, initDatabase: the pool is opened and closeDB deferred; on an error Run returns
initDatabase ==
    /\ app.pc = "initDatabase"
    /\ \E ok \in BOOLEAN :
          app' = IF ok THEN [app EXCEPT !.pc = "initCache", !.db = TRUE]
                       ELSE [app EXCEPT !.pc = "returned"]
    /\ UNCHANGED <<now, rows, queue, sched, work, canc, crt, gets, cache, resp, links, poison, sends, faults, cfg>>

\* Run, initCache: the redis client is created
initCache ==
    /\ app.pc = "initCache"
    /\ app' = [app EXCEPT !.pc = "closeCache", !.cache = TRUE]
    /\ UNCHANGED <<now, rows, queue, sched, work, canc, crt, gets, cache, resp, links, poison, sends, faults, cfg>>

\* Run, `if rdbErr := closeCache(rdb)`: the client is closed at once; Run
\* goes on when Close returned nil and returns its error otherwise
closeCache ==
    /\ app.pc = "closeCache"
    /\ \E ok \in BOOLEAN :
          app' = [app EXCEPT !.pc = IF ok THEN "initPublisher" ELSE "closeDB",
                             !.cache = FALSE]
    /\ UNCHANGED <<now, rows, queue, sched, work, canc, crt, gets, cache, resp, links, poison, sends, faults, cfg>>

\* initPublisher, rabbitmq.NewClient: the connection is opened, or Run returns the error
initPublisher ==
    /\ app.pc = "initPublisher"
    /\ \E ok \in BOOLEAN :
          app' = IF ok THEN [app EXCEPT !.pc = "initPublisherReturn", !.bus = TRUE]
                       ELSE [app EXCEPT !.pc = "closeDB"]
    /\ UNCHANGED <<now, rows, queue, sched, work, canc, crt, gets, cache, resp, links, poison, sends, faults, cfg>>

\* initPublisher returns the publisher: its deferred client.Close() runs
initPublisherReturn ==
    /\ app.pc = "initPublisherReturn"
    /\ app' = [app EXCEPT !.pc = "initHTTPServer", !.bus = FALSE]
    /\ UNCHANGED <<now, rows, queue, sched, work, canc, crt, gets, cache, resp, links, poison, sends, faults, cfg>>

\* Run, initNotifyService and initHTTPServer: eg.Go(httpServer.Start); no
\* other task is started
initHTTPServer ==
    /\ app.pc = "initHTTPServer"
    /\ app' = [app EXCEPT !.pc = "waitForShutdown", !.http = TRUE]
    /\ UNCHANGED <<now, rows, queue, sched, work, canc, crt, gets, cache, resp, links, poison, sends, faults, cfg>>

\* waitForShutdown: the context is cancelled, the server's task ends and
\* eg.Wait returns
waitForShutdown ==
    /\ app.pc = "waitForShutdown"
    /\ app' = [app EXCEPT !.pc = "closeDB", !.http = FALSE]
    /\ UNCHANGED <<now, rows, queue, sched, work, canc, crt, gets, cache, resp, links, poison, sends, faults, cfg>>

\* Run returns: the deferred closeDB
closeDB ==
    /\ app.pc = "closeDB"
    /\ app' = [app EXCEPT !.pc = "returned", !.db = FALSE]
    /\ UNCHANGED <<now, rows, queue, sched, work, canc, crt, gets, cache, resp, links, poison, sends, faults, cfg>>

\* the process: Run's steps, and the service at work while the listener is up
NextApp ==
    \/ initDatabase
    \/ initCache
    \/ closeCache
    \/ initPublisher
    \/ initPublisherReturn
    \/ initHTTPServer
    \/ waitForShutdown
    \/ closeDB
    \/ app.http /\ Next

NextReads ==
    \/ Next
    \/ \E i \in cfg.ids : GetStatus(i)
    \/ GetStatusSave

\* the pipeline next to its surroundings: the owner of the link tables and
\* a producer of malformed messages
NextEnv ==
    \/ Next
    \/ \E u \in cfg.reqs.users, ch \in {Telegram, Email} : Unlink(u, ch)
    \/ PoisonArrives
    \/ \E w \in cfg.workers : ReceivePoison(w)

Spec == Init /\ [][Next]_vars

InitReplicas == InitWith(Config({1, 2}, {"s1", "s2"}, {"w1"}, 2, "any", MaxSendsReplicas, MaxTimeReplicas, {FALSE}, DueRequests, FALSE))
SpecReplicas == InitReplicas /\ [][Next]_vars

InitWorkers == InitWith(Config({1}, {"s1"}, {"w1", "w2"}, 2, "any", MaxSends, MaxTime, BOOLEAN, ValidRequests, FALSE))
SpecWorkers == InitWorkers /\ [][Next]_vars

InitExhaust == InitWith(Config({1}, {"s1"}, {"w1"}, 2, "alwaysFail", MaxSends + 1, MaxTime, BOOLEAN, ValidRequests, FALSE))
SpecExhaust == InitExhaust /\ [][Next]_vars

InitRetrySuccess == InitWith(Config({1}, {"s1"}, {"w1"}, 3, "failTwice", MaxSends + 1, MaxTime, BOOLEAN, ValidRequests, FALSE))
SpecRetrySuccess == InitRetrySuccess /\ [][Next]_vars

\* the callers observed: every shape of Create request, the responses recorded
InitApi == InitWith(Config({1}, {"s1"}, {"w1"}, 1, "any", MaxSendsApi, MaxTimeApi, {FALSE}, AllRequests, TRUE))
SpecApi == InitApi /\ [][Next]_vars

\* the status read and its cache next to the writers
InitCache == InitWith(Config({1}, {"s1"}, {"w1"}, 1, "any", MaxSendsCache, MaxTimeCache, {FALSE}, ValidRequests, TRUE))
SpecCache == InitCache /\ [][NextReads]_vars

\* the surroundings, with a MultiSender that has no email sender
InitEnv ==
    InitWith({[c EXCEPT !.senders = {Telegram}] :
                c \in Config({1}, {"s1"}, {"w1"}, 1, "any", MaxSendsEnv, MaxTimeEnv, BOOLEAN, BothChannels, FALSE)})
SpecEnv == InitEnv /\ [][NextEnv]_vars

\* two notifications and a batch size of one
InitBatch ==
    InitWith({[c EXCEPT !.batchSize = 1] :
                c \in Config({1, 2}, {"s1"}, {"w1"}, 1, "any", MaxSendsBatch, MaxTimeBatch, {FALSE}, DueRequests, FALSE)})
SpecBatch == InitBatch /\ [][Next]_vars

\* the pipeline and a direct caller of the repository; id 2 never has a row
InitRepo ==
    InitWith(Config({1}, {"s1"}, {"w1"}, 1, "any", MaxSendsRepo, MaxTimeRepo, {FALSE}, DueRequests, TRUE))
SpecRepo == InitRepo /\ [][NextRepo]_vars

\* the process from the start of Run
InitApp ==
    InitWith(Config({1}, {"s1"}, {"w1"}, 1, "any", MaxSendsApp, MaxTimeApp, {FALSE}, DueRequests, FALSE))
SpecApp == InitApp /\ [][NextApp]_vars

\* the largest configuration config.Service admits (RETRY_DELAY lte=1h,
\* MAX_RETRIES max=10), a sender that always fails and a broker that requeues
InitBackoff ==
    InitWith({[c EXCEPT !.baseRetryDelay = 60 * Minute] :
                c \in Config({1}, {"s1"}, {"w1"}, 10, "alwaysFail", MaxSendsBackoff, MaxTimeBackoff, {TRUE}, DueRequests, FALSE)})
SpecBackoff == InitBackoff /\ [][Next]_vars

\* two notifications that one tick can claim together
InitTick ==
    InitWith(Config({1, 2}, {"s1"}, {"w1"}, 1, "any", MaxSendsBatch, MaxTimeBatch, {FALSE}, DueRequests, FALSE))
SpecTick == InitTick /\ [][Next]_vars

\* ------------------------------------------------------------- steps
Terminal == {StatusSent, StatusCancelled}

\* tick s attempts the publish of notification i
TickPublishes(s, i) ==
    /\ sched[s].pc = "publish"
    /\ sched[s].batch # <<>>
    /\ Head(sched[s].batch) = i
    /\ sched'[s].pc = "publish"
    /\ sched'[s].batch = Tail(sched[s].batch)

\* tick s commits
TickCommits(s) ==
    /\ sched[s].pc = "publish"
    /\ sched[s].batch = <<>>
    /\ sched'[s].pc = "idle"
    /\ faults' = faults

\* tick s claims a non-empty batch
TickClaims(s) == sched[s].pc = "idle" /\ sched'[s].pc = "publish"

\* worker w takes a delivery for notification i
Delivered(w, i) == work[w].pc = "idle" /\ work'[w].pc # "idle" /\ work'[w].id = i

\* worker w commits updateAfterSend for notification i
WorkerCommits(w, i) ==
    /\ work[w].pc = "write"
    /\ work[w].id = i
    /\ work'[w].pc = "idle"
    /\ faults' = faults

\* ------------------------------------------------------------- claims

\* C1: once a row's status is sent or cancelled, no operation changes the row.
C1_TerminalStability ==
    [][\A i \in Ids : rows[i].status \in Terminal => rows'[i] = rows[i]]_vars

\* C2: a delivery for an id whose row is sent or cancelled does not invoke
\* Sender.Send, and the handler's update leaves such a row as it is.
C2_HandlerIdempotent ==
    [][\A w \in Workers, i \in Ids :
          /\ (Delivered(w, i) /\ rows[i].status \in Terminal) => sends'[i] = sends[i]
          /\ (WorkerCommits(w, i) /\ rows[i].status \in Terminal) => rows'[i] = rows[i]]_vars

\* C3 (I1): in every committed store state sent_at is non-null iff status = sent.
C3_SentAtIffSent ==
    \A i \in Ids : Exists(rows[i]) => ((rows[i].sent_at # 0) <=> (rows[i].status = StatusSent))

\* C4: the batches two overlapping ticks hold are disjoint, and a claim whose
\* limit covers the due waiting rows leaves every one of them claimed by some tick.
DueWaiting == {i \in Ids : rows[i].status = StatusWaiting /\ rows[i].scheduled_at <= now}

C4_SingleClaimer ==
    /\ [](\A s1, s2 \in Schedulers :
             s1 # s2 => sched[s1].claimed \cap sched[s2].claimed = {})
    /\ [][\A s \in Schedulers :
             (TickClaims(s) /\ Cardinality(DueWaiting) <= cfg.batchSize)
                => DueWaiting \subseteq UNION {sched'[o].claimed : o \in Schedulers}]_vars

\* both replicas hold a batch at once, and between them every notification
C4_Witness ==
    /\ sched["s1"].claimed # {}
    /\ sched["s2"].claimed # {}
    /\ sched["s1"].claimed \cup sched["s2"].claimed = Ids

\* C5: while a row is committed in_process (its attempt not yet resolved to
\* sent or failed), no tick of any replica publishes a message for its id.
C5_NoDuplicationPerAttempt ==
    [][\A s \in Schedulers, i \in Ids :
          (TickPublishes(s, i) /\ queue'[i] = queue[i] + 1)
             => rows[i].status # StatusInProcess]_vars

\* a row is in_process with its message in flight while a replica runs a tick
C5_Witness ==
    \E i \in Ids, s \in Schedulers :
        /\ rows[i].status = StatusInProcess
        /\ queue[i] > 0
        /\ sched[s].pc = "publish"
        /\ sched[s].batch # <<>>

\* C6: every accepted notification eventually reaches sent, cancelled, or
\* failed with retries exhausted.  Stated on states: a notification that is not
\* resolved still has work pending for it (it is waiting for a claim, claimed,
\* on the bus, or in a handler); with nothing pending no scheduler or worker
\* step can ever change the row again.
Resolved(i) ==
    \/ rows[i].status \in Terminal
    \/ rows[i].status = StatusFailed /\ rows[i].retry_count > cfg.maxRetries

Pending(i) ==
    \/ rows[i].status = StatusWaiting
    \/ Locked(i)
    \/ queue[i] > 0
    \/ \E w \in Workers : work[w].pc # "idle" /\ work[w].id = i

C6_EventualResolution ==
    \A i \in Ids : Exists(rows[i]) => (Resolved(i) \/ Pending(i))

\* C7: a notification whose Publish failed in a tick is waiting after the tick.
C7_BusUnavailableStaysWaiting ==
    [][\A s \in Schedulers, i \in Ids :
          (/\ TickCommits(s)
           /\ i \in DOMAIN sched[s].wrote
           /\ sched[s].wrote[i].last_error = PublishError)
             => rows'[i].status = StatusWaiting]_vars

\* C8: a failed send that raises the stored retry_count to k, 1 <= k <= max_retries,
\* reschedules the row at the failure time plus base_delay * 2^(k-1).
C8_BackoffLaw ==
    [][\A w \in Workers, i \in Ids :
          (WorkerCommits(w, i) /\ work[w].sendErr)
             => LET k == rows'[i].retry_count
                IN (1 <= k /\ k <= cfg.maxRetries)
                      => /\ rows'[i].status = StatusWaiting
                         /\ rows'[i].scheduled_at = now + cfg.baseRetryDelay * Pow2(k - 1)]_vars

\* C9: with a sender that always fails (and no infrastructure fault),
\* retry_count never exceeds max_retries + 1, and a row failed with
\* retry_count = max_retries + 1 is not changed again by the scheduler or a worker.
C9_RetryExhaustion ==
    /\ [](faults = 0 => \A i \in Ids : rows[i].retry_count <= cfg.maxRetries + 1)
    /\ [][\A i \in Ids :
             (/\ faults' = 0
              /\ rows[i].status = StatusFailed
              /\ rows[i].retry_count = cfg.maxRetries + 1
              /\ rows'[i].status # StatusCancelled)
                => rows'[i] = rows[i]]_vars

\* C10: with a sender that fails twice and then succeeds (and no infrastructure
\* fault), Send is invoked at most three times for an id, and a sent row has
\* retry_count 2, sent_at set, no last_error and exactly three Send invocations
\* behind it.
C10_RetryThenSuccess ==
    faults = 0 =>
        \A i \in Ids :
            /\ sends[i] <= 3
            /\ rows[i].status = StatusSent
                  => /\ rows[i].retry_count = 2
                     /\ rows[i].sent_at # 0
                     /\ rows[i].last_error = NoError
                     /\ sends[i] = 3

\* C11 (P3, I5): no step lowers a row's retry_count; a worker's commit after a
\* failed send (UpdateStatus(failed), then RescheduleNotification while retries
\* remain) raises it by exactly one, so the reschedule itself leaves it alone.
C11_RetryMonotonic ==
    [][/\ \A i \in Ids : rows'[i].retry_count >= rows[i].retry_count
       /\ \A w \in Workers, i \in Ids :
             (WorkerCommits(w, i) /\ work[w].sendErr)
                => rows'[i].retry_count = rows[i].retry_count + 1]_vars

\* a row rescheduled for the second time
C11_Witness ==
    \E i \in Ids : rows[i].status = StatusWaiting /\ rows[i].retry_count = 2

\* C12 (P7): a row that is sent or cancelled was last written by a writer that
\* invalidated the cache after its commit (the worker's successful send,
\* Cancel); a GetStatus issued then returns the committed row, so a cache hit
\* for it carries the committed row.
C12_CacheReadThroughFresh ==
    \A i \in Ids :
        (rows[i].status \in Terminal /\ CacheHit(i)) => Unmarshal(cache[i].data) = rows[i]

\* C13: a step that commits a change of an existing row leaves no cache entry
\* for its id.
C13_InvalidateAfterMutation ==
    [][\A i \in Ids :
          (Exists(rows[i]) /\ rows'[i] # rows[i]) => ~cache'[i].present]_vars

\* C14: Cancel refuses a sent row with NotificationAlreadySent, a cancelled row
\* with NotificationAlreadyCancelled and a missing row with
\* NotificationNotFound, the store unchanged; a waiting, in_process or failed
\* row goes on to the update, which leaves it cancelled with last_error
\* "cancelled by user" and returns success.
C14_CancelOutcomes ==
    [][/\ \A i \in Ids :
             /\ (canc.pc = "idle" /\ resp' # resp /\ resp'.op = "cancel" /\ resp'.id = i)
                   => /\ rows' = rows
                      /\ canc'.pc = "idle"
                      /\ rows[i].status \notin {StatusWaiting, StatusInProcess, StatusFailed}
                      /\ rows[i].status = StatusSent => resp'.err = ErrNotificationAlreadySent
                      /\ rows[i].status = StatusCancelled => resp'.err = ErrNotificationCancelled
                      /\ ~Exists(rows[i]) => resp'.err = ErrNotificationNotFound
             /\ (canc.pc = "idle" /\ canc'.pc = "update" /\ canc'.id = i)
                   => /\ rows[i].status \in {StatusWaiting, StatusInProcess, StatusFailed}
                      /\ rows' = rows
                      /\ resp' = resp
       /\ canc.pc = "update" /\ canc'.pc = "idle"
             => /\ rows'[canc.id].status = StatusCancelled
                /\ rows'[canc.id].last_error = CancelReason
                /\ \A j \in Ids \ {canc.id} : rows'[j] = rows[j]
                /\ resp' = Response("cancel", NoError, canc.id, NoReq, FALSE)]_vars

\* a second Cancel of a cancelled notification was refused
C14_Witness ==
    /\ resp.op = "cancel"
    /\ resp.err = ErrNotificationCancelled
    /\ rows[resp.id].status = StatusCancelled
    /\ rows[resp.id].last_error = CancelReason

\* no message for notification i was ever published
NeverPublished(i) == queue[i] = 0 /\ sends[i] = 0

\* C15: a cancelled row for which no message was ever published (it was
\* cancelled before any tick published it) stays as it is, is in no tick's
\* claim, and no message for it is published.
C15_CancelBeforeSend ==
    /\ [](\A i \in Ids : (rows[i].status = StatusCancelled /\ NeverPublished(i))
             => \A s \in Schedulers : i \notin sched[s].claimed)
    /\ [][\A i \in Ids : (rows[i].status = StatusCancelled /\ NeverPublished(i))
             => /\ rows'[i] = rows[i]
                /\ queue'[i] = 0 /\ sends'[i] = 0
                /\ \A s \in Schedulers : i \notin sched'[s].claimed]_vars

\* notification 1 was cancelled while waiting and is due; a tick that claimed
\* after the cancellation holds notification 2 alone
C15_Witness ==
    /\ rows[1].status = StatusCancelled
    /\ rows[1].retry_count = 0
    /\ NeverPublished(1)
    /\ rows[1].scheduled_at <= now
    /\ \E s \in Schedulers : sched[s].claimed = {2} /\ rows[2].created_at >= rows[1].scheduled_at

\* the edges of the status machine; in_process -> waiting is the worker's
\* in_process -> failed -> waiting inside one transaction
AllowedEdges ==
    {<<StatusWaiting, StatusInProcess>>, <<StatusInProcess, StatusSent>>,
     <<StatusInProcess, StatusFailed>>, <<StatusFailed, StatusWaiting>>,
     <<StatusInProcess, StatusWaiting>>,
     <<StatusWaiting, StatusCancelled>>, <<StatusInProcess, StatusCancelled>>,
     <<StatusFailed, StatusCancelled>>}

\* C16: every committed status change of a row is an edge of the status machine.
C16_AllowedTransitionsOnly ==
    [][\A i \in Ids :
          (Exists(rows[i]) /\ rows'[i].status # rows[i].status)
             => <<rows[i].status, rows'[i].status>> \in AllowedEdges]_vars

\* a request the validation has to reject
BadRequest(req) ==
    \/ req.user_id = 0
    \/ req.channel \notin {Telegram, Email}
    \/ req.payload = ""
    \/ req.scheduled_at = 0

\* C17: a Create request with zero user_id, empty or invalid channel, empty
\* payload or zero scheduled_at returns InvalidData without a recipient lookup,
\* never reaches the insert, and no row carries such values.
C17_CreateValidation ==
    /\ (resp.op = "create" /\ BadRequest(resp.req))
          => (resp.err = ErrInvalidData /\ ~resp.lookup /\ resp.id = 0)
    /\ crt.pc = "insert" => ~BadRequest(crt.req)
    /\ \A i \in Ids : Exists(rows[i])
          => /\ rows[i].user_id # 0
             /\ rows[i].channel \in {Telegram, Email}
             /\ rows[i].payload # ""
             /\ rows[i].scheduled_at # 0

\* a request whose only defect is the empty payload was rejected
C17_Witness ==
    /\ resp.op = "create"
    /\ resp.err = ErrInvalidData
    /\ resp.req.user_id = 1
    /\ resp.req.channel = Email
    /\ resp.req.payload = ""
    /\ resp.req.scheduled_at # 0

\* C18: an accepted Create hands the repository scheduled_at = now + 1 minute
\* when the requested time is before now and the requested time otherwise; the
\* inserted row carries that scheduled_at, status waiting, retry_count 0 and no
\* sent_at, and Create succeeds.
C18_PastScheduleClamped ==
    [][/\ (crt.pc = "idle" /\ crt'.pc = "insert")
             => crt'.n.scheduled_at = IF crt'.req.scheduled_at < now
                                      THEN now + Minute
                                      ELSE crt'.req.scheduled_at
       /\ (crt.pc = "insert" /\ crt'.pc = "idle")
             => \E i \in Ids :
                   /\ ~Exists(rows[i])
                   /\ rows'[i].scheduled_at = crt.n.scheduled_at
                   /\ rows'[i].status = StatusWaiting
                   /\ rows'[i].retry_count = 0
                   /\ rows'[i].sent_at = 0]_vars

\* a Create with a past scheduled_at holds the adjusted notification
C18_Witness ==
    /\ crt.pc = "insert"
    /\ crt.req.scheduled_at < crt.n.scheduled_at
    /\ crt.req.scheduled_at # 0

\* C19 (I2): every row satisfies scheduled_at >= created_at.
C19_ScheduledNotBeforeCreated ==
    \A i \in Ids : Exists(rows[i]) => rows[i].scheduled_at >= rows[i].created_at

\* the user of the request has a link for the requested channel
HasLink(req) ==
    \/ req.channel = Telegram /\ req.user_id \in DOMAIN TelegramLinks
    \/ req.channel = Email /\ req.user_id \in DOMAIN EmailLinks

\* C20: a well-formed Create request for a user without a link for the channel
\* returns RecipientNotFound, a request for an unsupported channel returns
\* InvalidData; neither reaches the insert, and a step that returns an error
\* from Create inserts no row.
C20_RecipientResolutionErrors ==
    /\ [](/\ (resp.op = "create" /\ ~BadRequest(resp.req) /\ ~HasLink(resp.req))
                => (resp.err = ErrRecipientNotFound /\ resp.id = 0)
          /\ (resp.op = "create" /\ resp.req.channel \notin {"", Telegram, Email})
                => (resp.err = ErrInvalidData /\ resp.id = 0)
          /\ crt.pc = "insert"
                => (HasLink(crt.req) /\ crt.n.recipient_identifier # ""))
    /\ [][(resp' # resp /\ resp'.op = "create" /\ resp'.err # NoError)
             => (rows' = rows /\ crt'.pc = "idle")]_vars

\* a telegram request for the user that has only an email link was refused
C20_Witness ==
    /\ resp.op = "create"
    /\ resp.err = ErrRecipientNotFound
    /\ resp.req.user_id = 2
    /\ resp.req.channel = Telegram

\* the user of the request has, at this moment, a link for the requested channel
LinkedNow(req) == req.user_id \in DOMAIN links[req.channel]

\* C21: the recipient lookup and the insert of Create are one transaction: at
\* the insert the link the lookup resolved is still there, and the row carries
\* the recipient of the user's current link.
C21_ResolveAndInsertAtomic ==
    [][(crt.pc = "insert" /\ crt'.pc = "idle") => LinkedNow(crt.req)]_vars

C23_HttpErrorMapping ==
    /\ (resp.op \in {"get", "cancel"} /\ resp.err = ErrNotificationNotFound) => resp.code = 404
    /\ (resp.op = "cancel" /\ resp.err = ErrNotificationAlreadySent) => resp.code = 409
    /\ (resp.op = "cancel" /\ resp.err = ErrNotificationCancelled) => resp.code = 409

\* C24: Send returns an error when no sender is registered for the
\* notification's channel, and never returns success without a channel sender
\* having been invoked.
C24_SenderFacade ==
    [][\A w \in Workers, i \in Ids :
          Delivered(w, i)
             => /\ rows[i].channel \notin cfg.senders => work'[w].sendErr
                /\ ~work'[w].sendErr => work'[w].invoked]_vars

\* C25: the worker's commit after a failed send (failed, or failed plus
\* reschedule) is followed by the acknowledgement of the delivery: the commit
\* puts no message for the id back on the queue.
C25_AckAfterDurableTransition ==
    [][\A w \in Workers, i \in Ids :
          (WorkerCommits(w, i) /\ work[w].sendErr) => queue'[i] = queue[i]]_vars

\* C26: the delivery of a message that does not decode changes no row, invokes
\* no Send, and removes the message from the queue for good.
C26_DecodeFailureDropped ==
    [][poison'.deliveries = poison.deliveries + 1
          => /\ rows' = rows
             /\ sends' = sends
             /\ poison'.ready = poison.ready - 1]_vars

\* C27: UpdateStatus(sent, nil) applied to a row that is already sent leaves
\* every field of the row, sent_at included, as it was.
C27_UpdateSentIdempotent ==
    [][\A w \in Workers, i \in Ids :
          (WorkerCommits(w, i) /\ ~work[w].sendErr /\ rows[i].status = StatusSent)
             => rows'[i] = rows[i]]_vars

\* a message for id i is on the bus or in the hands of a worker
InFlight(i) == queue[i] > 0 \/ \E w \in Workers : work[w].pc # "idle" /\ work[w].id = i

\* C28: invariant I3: a row that is waiting, and not held by a tick in
\* progress, has no message for its id in flight on the bus.
C28_WaitingNotInFlight ==
    \A i \in Ids : (rows[i].status = StatusWaiting /\ ~Locked(i)) => ~InFlight(i)

\* C29: Sender.Send is never invoked for a notification before the
\* scheduled_at currently stored in its row.
C29_EarliestDelivery ==
    [][\A w \in Workers, i \in Ids :
          (Delivered(w, i) /\ work'[w].invoked) => rows[i].scheduled_at <= now]_vars

\* C30: every row GetForProcess(limit) returns to a tick is waiting and due
\* at the time of the claim, at most limit rows are returned, and a row that
\* is in_process, failed, sent or cancelled is never returned.
C30_ClaimPredicate ==
    [][\A s \in Schedulers :
          TickClaims(s)
             => /\ Len(sched'[s].batch) <= cfg.batchSize
                /\ \A i \in sched'[s].claimed :
                      /\ rows[i].status = StatusWaiting
                      /\ rows[i].scheduled_at <= now
                      /\ rows[i].status \notin {StatusInProcess, StatusFailed,
                                                StatusSent, StatusCancelled}]_vars

\* a tick holds a full batch of one row while one row is due and waiting
\* outside it and another row, no longer waiting, is outside it too
C30_Witness ==
    \E s \in Schedulers, i \in Ids :
       /\ sched[s].pc = "publish"
       /\ sched[s].claimed = {i}
       /\ Cardinality(sched[s].claimed) = cfg.batchSize
       /\ \E j \in Ids \ {i} :
             \/ rows[j].status = StatusWaiting /\ rows[j].scheduled_at <= now
             \/ rows[j].status \in {StatusInProcess, StatusFailed, StatusSent, StatusCancelled}

\* Cancel commits its update of notification i
CancelCommits(i) == canc.pc = "update" /\ canc.id = i /\ canc'.pc = "idle"

\* C31: no committed transition of the row occurs between Cancel's read and
\* its update: the row Cancel overwrites still passes the check Cancel made,
\* so Cancel never overwrites a row that has meanwhile become sent.
C31_CancelSerialized ==
    [][\A i \in Ids : CancelCommits(i) => cancelCheck(rows[i]) = NoError]_vars

\* tick s ends without committing
TickRollsBack(s) ==
    /\ sched[s].pc = "publish"
    /\ sched'[s].pc = "idle"
    /\ faults' = faults + 1

\* C32: the status updates of one tick commit all together or not at all: a
\* commit makes every write of the tick visible in one step; after a rollback
\* every row the tick claimed is still waiting with its retry_count and
\* last_error unchanged; and no row held by an uncommitted tick is committed
\* as anything but waiting.
C32_TickAtomicity ==
    /\ [](\A i \in Ids : Locked(i) => rows[i].status = StatusWaiting)
    /\ [][\A s \in Schedulers :
             /\ TickCommits(s)
                   => \A i \in DOMAIN sched[s].wrote : rows'[i] = sched[s].wrote[i]
             /\ TickRollsBack(s)
                   => \A i \in sched[s].claimed :
                         /\ rows'[i].status = StatusWaiting
                         /\ rows'[i].retry_count = rows[i].retry_count
                         /\ rows'[i].last_error = rows[i].last_error]_vars

\* a tick rolled back after publishing: the message is on the queue, nothing
\* was ever sent, and the row is waiting as it was created
C32_Witness ==
    /\ faults = 1
    /\ \A s \in Schedulers : sched[s].pc = "idle"
    /\ \E i \in Ids :
          /\ queue[i] > 0
          /\ \A j \in Ids : sends[j] = 0 /\ rows[j].retry_count = 0
          /\ rows[i].status = StatusWaiting
          /\ rows[i].last_error = NoError

\* C33: a failed publish marks that row failed with last_error "publish
\* error", the rest of the batch is still attempted, the tick commits, and
\* the returned stats satisfy processed + failed = number of rows claimed.
C33_PerNotificationIsolation ==
    [][\A s \in Schedulers :
          /\ \A i \in Ids :
                (TickPublishes(s, i) /\ queue'[i] = queue[i])
                   => /\ i \in DOMAIN sched'[s].wrote
                      /\ sched'[s].wrote[i].status = StatusFailed
                      /\ sched'[s].wrote[i].last_error = PublishError
                      /\ sched'[s].pc = "publish"
                      /\ sched'[s].claimed = sched[s].claimed
          /\ TickCommits(s)
                => /\ DOMAIN sched[s].wrote = sched[s].claimed
                   /\ sched[s].stats.Processed + sched[s].stats.Failed
                         = Cardinality(sched[s].claimed)
                   /\ sched[s].stats.Failed
                         = Cardinality({i \in sched[s].claimed : rows'[i].status = StatusFailed})
                   /\ \A i \in sched[s].claimed :
                         \/ rows'[i].status = StatusInProcess
                         \/ rows'[i].status = StatusFailed /\ rows'[i].last_error = PublishError]_vars

\* a tick of two rows has failed to publish one and published the other
C33_Witness ==
    \E s \in Schedulers :
       /\ sched[s].pc = "publish"
       /\ sched[s].batch = <<>>
       /\ sched[s].stats = [Processed |-> 1, Failed |-> 1]
       /\ \E i, j \in sched[s].claimed :
             /\ sched[s].wrote[i].status = StatusFailed
             /\ sched[s].wrote[j].status = StatusInProcess

\* C34: the messages one tick publishes are published in non-decreasing order
\* of the rows' scheduled_at: the row a tick attempts next is due no later
\* than any row of the batch it has still to attempt.
C34_PublishOrder ==
    [][\A s \in Schedulers, i \in Ids :
          TickPublishes(s, i)
             => \A k \in 1..Len(sched'[s].batch) :
                   rows[i].scheduled_at <= rows[sched'[s].batch[k]].scheduled_at]_vars

\* a tick holds two rows with different scheduled_at and has attempted the
\* earlier one
C34_Witness ==
    \E s \in Schedulers, i, j \in Ids :
       /\ sched[s].pc = "publish"
       /\ sched[s].claimed = {i, j}
       /\ sched[s].batch = <<j>>
       /\ i \in DOMAIN sched[s].wrote
       /\ rows[i].scheduled_at < rows[j].scheduled_at

\* C35: after a failed send with retries remaining the worker's transaction
\* marks the row failed and moves it back to waiting in one commit, so the row
\* is never committed failed with retries remaining; a failed row the worker
\* commits has retry_count > max_retries.
C35_FailedRescheduleAtomic ==
    /\ [](\A i \in Ids :
             (rows[i].status = StatusFailed /\ rows[i].last_error = SendError)
                => rows[i].retry_count > cfg.maxRetries)
    /\ [][\A w \in Workers, i \in Ids :
             (WorkerCommits(w, i) /\ work[w].sendErr /\ Exists(rows[i]))
                => /\ work[w].read < cfg.maxRetries
                      => /\ rows'[i].status = StatusWaiting
                         /\ rows'[i].retry_count = rows[i].retry_count + 1
                   /\ rows'[i].status \in {StatusWaiting, StatusFailed}
                   /\ rows'[i].status = StatusFailed
                         => rows'[i].retry_count > cfg.maxRetries]_vars

\* a row left failed by the worker when its retries were used up
C35_Witness ==
    \E i \in Ids :
       /\ rows[i].status = StatusFailed
       /\ rows[i].last_error = SendError
       /\ rows[i].retry_count = cfg.maxRetries + 1

\* RescheduleNotification(i, t) is applied
Reschedules(i, t) ==
    /\ resp'.op = "reschedule"
    /\ resp'.id = i
    /\ rows' = [rows EXCEPT ![i] = RescheduleNotification(rows[i], t)]
    /\ UNCHANGED <<now, queue, sched, work, sends, faults>>

\* C36: RescheduleNotification(id, t) sets scheduled_at = t, status = waiting
\* and last_error = null and leaves retry_count, sent_at, payload, channel
\* and recipient_identifier unchanged; for an id with no row it returns
\* DataNotFound and changes nothing.
C36_RescheduleEffectAndFrame ==
    [][\A i \in Ids, t \in 1..cfg.maxTime :
          Reschedules(i, t)
             => /\ \A j \in Ids \ {i} : rows'[j] = rows[j]
                /\ Exists(rows[i])
                      => /\ resp'.err = NoError
                         /\ rows'[i].scheduled_at = t
                         /\ rows'[i].status = StatusWaiting
                         /\ rows'[i].last_error = NoError
                         /\ rows'[i].retry_count = rows[i].retry_count
                         /\ rows'[i].sent_at = rows[i].sent_at
                         /\ rows'[i].payload = rows[i].payload
                         /\ rows'[i].channel = rows[i].channel
                         /\ rows'[i].recipient_identifier = rows[i].recipient_identifier
                         /\ rows'[i].user_id = rows[i].user_id
                         /\ rows'[i].created_at = rows[i].created_at
                /\ ~Exists(rows[i])
                      => /\ resp'.err = ErrDataNotFound
                         /\ rows' = rows]_vars

\* a row rescheduled after it was sent and had failed attempts: it is waiting
\* with its retry_count and sent_at kept
C36_Witness ==
    /\ resp.op = "reschedule"
    /\ resp.err = NoError
    /\ rows[resp.id].status = StatusWaiting
    /\ rows[resp.id].sent_at # 0
    /\ rows[resp.id].retry_count > 0
    /\ rows[resp.id].last_error = NoError

\* C37: Run opens the database, the cache and the bus, then starts the
\* scheduler task and the dispatcher task, then starts the HTTP listener; the
\* cache and bus connections stay open until shutdown: while the listener is
\* up, the three resources are open and both tasks are running.
C37_LifecycleOrder ==
    app.http => /\ app.db
                /\ app.cache
                /\ app.bus
                /\ app.scheduler
                /\ app.dispatcher

\* the ceiling the retry schedule gives as its example: 24 hours
BackoffCeiling == 24 * 60 * Minute

\* C38: the delay the worker adds when rescheduling is positive and never
\* exceeds the ceiling, for every retry_count the row can reach.
C38_BackoffCeiling ==
    [][\A w \in Workers, i \in Ids :
          (WorkerCommits(w, i) /\ work[w].sendErr /\ rows'[i].status = StatusWaiting)
             => /\ rows'[i].scheduled_at - now > 0
                /\ rows'[i].scheduled_at - now <= BackoffCeiling]_vars

\* C39: once Cancel has returned success for a notification, Sender.Send is
\* not invoked for its id and its row does not become sent: no step from a
\* state where the row is cancelled invokes Send for it or leaves it sent.
C39_NoDeliveryAfterCancel ==
    [][\A i \in Ids :
          rows[i].status = StatusCancelled
             => /\ sends'[i] = sends[i]
                /\ rows'[i].status # StatusSent]_vars

\* C40: with no infrastructure fault, and redeliveries only of messages whose
\* handler returned an error, Sender.Send returns success at most once per
\* notification: a send that succeeds finds no earlier success for the id,
\* neither committed (sent_at is set by the first success and never cleared)
\* nor held by another worker before its commit.
C40_AtMostOneSuccess ==
    [][\A w \in Workers, i \in Ids :
          (faults' = 0 /\ Delivered(w, i) /\ work'[w].invoked /\ ~work'[w].sendErr)
             => /\ rows[i].sent_at = 0
                /\ \A o \in Workers \ {w} :
                      ~(/\ work[o].pc # "idle"
                        /\ work[o].id = i
                        /\ work[o].invoked
                        /\ ~work[o].sendErr)]_vars
====
